---- MODULE Spec2Model ----
(***************************************************************************)
(* Model of API/API.py: the capsule table, the three request handlers that *)
(* touch it (create_capsule, get_capsules, delete_capsule) and the         *)
(* scheduled job send_scheduled_emails with send_email.                    *)
(*                                                                         *)
(* The job runs in a scheduler thread next to the request handlers, so it  *)
(* is split at the places where it touches shared state: the query (lines  *)
(* 125-128), the reload of an expired object (line 138), send_email (line  *)
(* 139: the upload folder and the mail relay) and the commit (lines 142    *)
(* and 149).  A request handler is one action.                             *)
(*                                                                         *)
(* Library behaviour the code relies on, as the libraries document it:     *)
(*  - SQLite (the default database, line 37) gives an INTEGER PRIMARY KEY  *)
(*    without AUTOINCREMENT the value max(id) + 1, or 1 in an empty table. *)
(*  - Session.commit() expires every loaded object; the next attribute     *)
(*    read reloads the row by primary key and raises ObjectDeletedError    *)
(*    when the row is gone.                                                *)
(*  - A flush writes the columns whose value changed, UPDATE ... WHERE id, *)
(*    and emits nothing when none changed; an UPDATE that matches no row   *)
(*    raises StaleDataError.  After a failed flush or commit the session   *)
(*    refuses a further commit until rollback().                           *)
(*  - A scheduler runs one instance of a job at a time (max_instances is   *)
(*    left at 1) and catches what a job raises.                            *)
(*                                                                         *)
(* Spec is one process with its scheduler and the requests it serves.      *)
(* SpecTwoProcesses adds the job of a second process that has imported the *)
(* module.  SpecFair is Spec's job with the requests that are carried out, *)
(* under fairness of the trigger, the database and the mail relay.         *)
(***************************************************************************)
EXTENDS Integers, Sequences, FiniteSets, TLC

\* ----- bounds of the model ----------------------------------------------
\* number of create requests that store a record or a file
MaxCreates == 3
\* number of rows the table holds at a time
MaxRows == 2
\* the clock runs over 0..MaxTime, and so do the requested send times
MaxTime == 1

\* ----- values -----------------------------------------------------------
\* Python None
Null == "None"

\* send_email line 168
ErrCreds == "Email credentials not configured. Cannot send email."

\* str(e) of the errors smtplib raises (lines 217-219)
SmtpErrors == {"Connection refused"}

\* str(e) of an error of open()/read() on the attachment (lines 181-196)
ErrAttach == "attachment unreadable"

Times == 0..MaxTime

\* the object the loop variable holds when no capsule is being processed
NoCapsule == [id |-> 0, uid |-> 0, due |-> 0, att |-> FALSE,
              status |-> "none", error |-> Null]

\* send_email has not been called for the current capsule
NoResult == [smtp |-> FALSE, attached |-> FALSE, err |-> Null]

\* ----- pure helpers -----------------------------------------------------
Max(S) == CHOOSE x \in S : \A y \in S : y <= x

Min(S) == CHOOSE x \in S : \A y \in S : x <= y

RECURSIVE Ascending(_)
\* the rows of a table scan, in rowid order
Ascending(S) == IF S = {} THEN << >> ELSE << Min(S) >> \o Ascending(S \ {Min(S)})

\* the primary key SQLite gives a new row of table capsule (line 78)
NewId(s) == IF DOMAIN s = {} THEN 1 ELSE Max(DOMAIN s) + 1

\* table s without row id
Without(s, id) == [i \in DOMAIN s \ {id} |-> s[i]]

\* table s with row id set to r
With(s, id, r) == [i \in DOMAIN s \cup {id} |-> IF i = id THEN r ELSE s[i]]

\* FindDue that never takes a failed record again
FindDue_NoRetry(s, now) == {i \in DOMAIN s : s[i].status = "pending" /\ s[i].due <= now}

\* FindDue without the filter on status
FindDue_AnyStatus(s, now) == {i \in DOMAIN s : s[i].due <= now}

\* FindDue without the filter on send_datetime_utc
FindDue_IgnoreDue(s, now) == {i \in DOMAIN s : s[i].status \in {"pending", "failed"}}

\* the filter of the scheduler's query (lines 125-128)
FindDue(s, now) ==
    {i \in DOMAIN s : s[i].status \in {"pending", "failed"} /\ s[i].due <= now}

\* Capsule.query.get / the reload of an expired object: the row as an object
Loaded(s, id) == [id |-> id, uid |-> s[id].uid, due |-> s[id].due, att |-> s[id].att,
                  status |-> s[id].status, error |-> s[id].error]

\* ----- the request handlers, as functions of the table and the upload folder
\* POST /api/capsules (lines 223-351) on table s and upload folder fs, for the
\* uid-th upload. valid: the required fields are present and send_datetime
\* parses; due: send_datetime as a UTC instant; att: a file is uploaded;
\* saved: attachment_file.save succeeds; dbOk: db.session.commit succeeds
create_capsule(s, fs, uid, valid, due, att, saved, dbOk) ==
    IF ~valid
    THEN [code |-> 400, id |-> 0, store |-> s, files |-> fs]
    ELSE IF att /\ ~saved
    THEN [code |-> 500, id |-> 0, store |-> s, files |-> fs]
    ELSE IF ~dbOk
    THEN [code |-> 500, id |-> 0, store |-> s,
          files |-> IF att THEN fs \cup {uid} ELSE fs]
    ELSE [code |-> 201, id |-> NewId(s),
          store |-> With(s, NewId(s), [uid |-> uid, due |-> due, att |-> att,
                                       status |-> "pending", error |-> Null]),
          files |-> IF att THEN fs \cup {uid} ELSE fs]

\* GET /api/capsules (lines 353-364): the records listed, each by its content
get_capsules(s) == [code |-> 200, body |-> {Loaded(s, i) : i \in DOMAIN s}]

\* delete_capsule that gives up when os.remove fails
delete_capsule_Blocked(s, fs, capsule_id, removed, dbOk) ==
    IF capsule_id \notin DOMAIN s
    THEN [code |-> 404, store |-> s, files |-> fs]
    ELSE IF s[capsule_id].att /\ s[capsule_id].uid \in fs /\ ~removed
    THEN [code |-> 500, store |-> s, files |-> fs]
    ELSE [code |-> IF dbOk THEN 200 ELSE 500,
          store |-> IF dbOk THEN Without(s, capsule_id) ELSE s,
          files |-> fs \ {s[capsule_id].uid}]

\* DELETE /api/capsules/<capsule_id> (lines 366-408).
\* removed: os.remove succeeds; dbOk: db.session.commit succeeds
delete_capsule(s, fs, capsule_id, removed, dbOk) ==
    IF capsule_id \notin DOMAIN s
    THEN [code |-> 404, store |-> s, files |-> fs]
    ELSE [code |-> IF dbOk THEN 200 ELSE 500,
          store |-> IF dbOk THEN Without(s, capsule_id) ELSE s,
          files |-> IF s[capsule_id].att /\ s[capsule_id].uid \in fs /\ removed
                    THEN fs \ {s[capsule_id].uid}
                    ELSE fs]

VARIABLES
    store,             \* table capsule: id -> row
    files,             \* upload folder: the attachment files, each named by the uid of its upload
    clock,             \* datetime.now(timezone.utc)
    creds,             \* MAIL_USERNAME and MAIL_PASSWORD are both configured
    nextUid,           \* count of records and uploads so far, plus one
    assigned,          \* the highest id a record was ever given
    pc,                \* where the scheduled job is: idle, query, load, send, write
    now_utc,           \* the job's now_utc (line 120)
    pending_capsules,  \* the job's pending_capsules: the ids of the objects, in order
    idx,               \* index in pending_capsules of the capsule being processed
    capsule,           \* the loaded attributes of the capsule being processed
    result,            \* outcome of send_email(capsule)
    other_job          \* the same locals of the job in the second process that runs a scheduler

vars == << store, files, clock, creds, nextUid, assigned, pc, now_utc, pending_capsules, idx,
           capsule, result, other_job >>

jobVars == << pc, now_utc, pending_capsules, idx, capsule, result >>

\* the locals of a job that is not running
IdleJob == [pc |-> "idle", now_utc |-> 0, pending_capsules |-> << >>, idx |-> 0,
            capsule |-> NoCapsule, result |-> NoResult]

Init ==
    /\ store = << >>
    /\ files = {}
    /\ clock = 0
    /\ creds \in BOOLEAN
    /\ nextUid = 1
    /\ assigned = 0
    /\ pc = "idle"
    /\ now_utc = 0
    /\ pending_capsules = << >>
    /\ idx = 0
    /\ capsule = NoCapsule
    /\ result = NoResult
    /\ other_job = IdleJob

\* ----- the clock --------------------------------------------------------
Advance ==
    /\ clock < MaxTime
    /\ clock' = clock + 1
    /\ UNCHANGED << store, files, creds, nextUid, assigned, jobVars, other_job >>

\* ----- the requests ------------------------------------------------------
POST_capsules(valid, due, att, saved, dbOk) ==
    /\ nextUid <= MaxCreates
    /\ Cardinality(DOMAIN store) < MaxRows
    /\ LET r == create_capsule(store, files, nextUid, valid, due, att, saved, dbOk)
       IN  /\ store' = r.store
           /\ files' = r.files
           /\ nextUid' = IF r.code = 201 \/ r.files # files THEN nextUid + 1 ELSE nextUid
           /\ assigned' = IF r.code = 201 /\ r.id > assigned THEN r.id ELSE assigned
    /\ UNCHANGED << clock, creds, jobVars, other_job >>

GET_capsules ==
    /\ get_capsules(store).code = 200
    /\ UNCHANGED vars

DELETE_capsule(capsule_id, removed, dbOk) ==
    /\ LET r == delete_capsule(store, files, capsule_id, removed, dbOk)
       IN  /\ store' = r.store
           /\ files' = r.files
    /\ UNCHANGED << clock, creds, nextUid, assigned, jobVars, other_job >>

\* ----- the scheduled job send_scheduled_emails ---------------------------
\* JobEnds where the exception leaves the job and stops the scheduler
JobEnds_Crash ==
    /\ pc' = "crashed"
    /\ now_utc' = 0
    /\ pending_capsules' = << >>
    /\ idx' = 0
    /\ capsule' = NoCapsule
    /\ result' = NoResult

\* the job returns: its locals are gone
JobEnds ==
    /\ pc' = "idle"
    /\ now_utc' = 0
    /\ pending_capsules' = << >>
    /\ idx' = 0
    /\ capsule' = NoCapsule
    /\ result' = NoResult

\* the interval trigger fires the job (line 497); line 120 reads the clock
start_job ==
    /\ pc = "idle"
    /\ pc' = "query"
    /\ now_utc' = clock
    /\ UNCHANGED << store, files, clock, creds, nextUid, assigned, pending_capsules, idx,
                    capsule, result, other_job >>

\* lines 125-138: the query, and the first capsule of the loop, whose attributes
\* the query has loaded. dbOk: the query does not raise (else lines 153-155)
query_pending(dbOk) ==
    /\ pc = "query"
    /\ IF ~dbOk \/ FindDue(store, now_utc) = {}
       THEN JobEnds
       ELSE /\ pending_capsules' = Ascending(FindDue(store, now_utc))
            /\ idx' = 1
            /\ capsule' = Loaded(store, Min(FindDue(store, now_utc)))
            /\ result' = NoResult
            /\ pc' = "send"
            /\ UNCHANGED now_utc
    /\ UNCHANGED << store, files, clock, creds, nextUid, assigned, other_job >>

\* line 138 for a later capsule of the loop: the commit of the capsule before it
\* expired the object, reading capsule.id reloads the row; the row is gone:
\* ObjectDeletedError, raised again by line 146, ends the job at line 156
load_capsule ==
    /\ pc = "load"
    /\ IF pending_capsules[idx] \in DOMAIN store
       THEN /\ capsule' = Loaded(store, pending_capsules[idx])
            /\ pc' = "send"
            /\ UNCHANGED << now_utc, pending_capsules, idx, result >>
       ELSE JobEnds
    /\ UNCHANGED << store, files, clock, creds, nextUid, assigned, other_job >>

\* send_email (lines 163-219): the outcomes it can have for object c with the
\* upload folder fs and credentials cr. smtp: an SMTP session was opened;
\* attached: the file went into the message; err: str(e) of what it raised
send_email(c, fs, cr) ==
    IF ~cr
    THEN {[smtp |-> FALSE, attached |-> FALSE, err |-> ErrCreds]}
    ELSE (IF c.att /\ c.uid \in fs
          THEN {[smtp |-> FALSE, attached |-> FALSE, err |-> ErrAttach]}
          ELSE {})
         \cup {[smtp |-> TRUE, attached |-> (c.att /\ c.uid \in fs), err |-> e] :
                  e \in SmtpErrors \cup {Null}}

\* line 139
call_send_email ==
    /\ pc = "send"
    /\ result' \in send_email(capsule, files, creds)
    /\ pc' = "write"
    /\ UNCHANGED << store, files, clock, creds, nextUid, assigned, now_utc, pending_capsules,
                    idx, capsule, other_job >>

\* OnSuccess without line 141
OnSuccess_KeepError(c) == [c EXCEPT !.status = "sent"]

\* lines 140-141
OnSuccess(c) == [c EXCEPT !.status = "sent", !.error = Null]

\* OnFailure that puts a record whose retry failed back as pending
OnFailure_Requeue(c, e) ==
    [c EXCEPT !.status = IF c.status = "failed" THEN "pending" ELSE "failed", !.error = e]

\* OnFailure that keeps the text of an earlier failure
OnFailure_KeepFirst(c, e) ==
    [c EXCEPT !.status = "failed", !.error = IF c.error # Null THEN c.error ELSE e]

\* lines 147-148
OnFailure(c, e) == [c EXCEPT !.status = "failed", !.error = e]

\* the columns a flush of object new, loaded as old, writes
Changed(old, new) ==
    {f \in {"status", "error"} : IF f = "status" THEN old.status # new.status
                                 ELSE old.error # new.error}

\* UPDATE capsule SET <cols> WHERE id = new.id
Update(s, cols, new) ==
    [s EXCEPT ![new.id] = [@ EXCEPT !.status = IF "status" \in cols THEN new.status ELSE @,
                                    !.error = IF "error" \in cols THEN new.error ELSE @]]

\* the loop goes to its next capsule, or the job returns
NextCapsule ==
    IF idx < Len(pending_capsules)
    THEN /\ idx' = idx + 1
         /\ pc' = "load"
         /\ capsule' = NoCapsule
         /\ result' = NoResult
         /\ UNCHANGED << now_utc, pending_capsules >>
    ELSE JobEnds

\* lines 140-142 after send_email returned, lines 144-149 after it raised.
\* dbOk: the database takes the UPDATE and the COMMIT. When the commit of line 142
\* raises, line 149 commits again on a session that needs a rollback and raises
\* too; an exception of line 149 ends the job at lines 153-160
commit_status(dbOk) ==
    /\ pc = "write"
    /\ LET new == IF result.err = Null THEN OnSuccess(capsule)
                  ELSE OnFailure(capsule, result.err)
       IN  IF Changed(capsule, new) = {}
           THEN /\ NextCapsule
                /\ UNCHANGED store
           ELSE IF ~dbOk \/ capsule.id \notin DOMAIN store
           THEN /\ JobEnds
                /\ UNCHANGED store
           ELSE /\ store' = Update(store, Changed(capsule, new), new)
                /\ NextCapsule
    /\ UNCHANGED << files, clock, creds, nextUid, assigned, other_job >>

Next ==
    \/ Advance
    \/ \E valid \in BOOLEAN, due \in Times, att \in BOOLEAN, saved \in BOOLEAN, dbOk \in BOOLEAN :
          POST_capsules(valid, due, att, saved, dbOk)
    \/ GET_capsules
    \/ \E capsule_id \in 1..MaxCreates, removed \in BOOLEAN, dbOk \in BOOLEAN :
          DELETE_capsule(capsule_id, removed, dbOk)
    \/ start_job
    \/ \E dbOk \in BOOLEAN : query_pending(dbOk)
    \/ load_capsule
    \/ call_send_email
    \/ \E dbOk \in BOOLEAN : commit_status(dbOk)

Spec == Init /\ [][Next]_vars

\* ----- a second process that runs the scheduler ---------------------------
\* Lines 493-498 start a scheduler whenever the module is imported. python
\* API/API.py imports it twice: app.run(debug=True) of line 545 runs under the
\* reloader, whose parent process has started its scheduler at import and keeps
\* it running while the child process, which imports the module again, serves
\* the requests; each worker of a WSGI server imports it as well. Within one
\* scheduler the job has one instance at a time (add_job of line 497 leaves
\* max_instances at 1), which is the guard pc = "idle" of each start. The two
\* processes share the database file and the upload folder, each has its own
\* session. other_job holds the locals of the second process's job, whose steps
\* are those of the job above.
other_start_job ==
    /\ other_job.pc = "idle"
    /\ other_job' = [other_job EXCEPT !.pc = "query", !.now_utc = clock]
    /\ UNCHANGED << store, files, clock, creds, nextUid, assigned, jobVars >>

other_query_pending(dbOk) ==
    /\ other_job.pc = "query"
    /\ other_job' =
          IF ~dbOk \/ FindDue(store, other_job.now_utc) = {}
          THEN IdleJob
          ELSE [other_job EXCEPT
                   !.pending_capsules = Ascending(FindDue(store, other_job.now_utc)),
                   !.idx = 1,
                   !.capsule = Loaded(store, Min(FindDue(store, other_job.now_utc))),
                   !.pc = "send"]
    /\ UNCHANGED << store, files, clock, creds, nextUid, assigned, jobVars >>

other_load_capsule ==
    /\ other_job.pc = "load"
    /\ other_job' =
          IF other_job.pending_capsules[other_job.idx] \in DOMAIN store
          THEN [other_job EXCEPT
                   !.capsule = Loaded(store, other_job.pending_capsules[other_job.idx]),
                   !.pc = "send"]
          ELSE IdleJob
    /\ UNCHANGED << store, files, clock, creds, nextUid, assigned, jobVars >>

other_call_send_email ==
    /\ other_job.pc = "send"
    /\ \E r \in send_email(other_job.capsule, files, creds) :
          other_job' = [other_job EXCEPT !.result = r, !.pc = "write"]
    /\ UNCHANGED << store, files, clock, creds, nextUid, assigned, jobVars >>

\* NextCapsule for the locals j
OtherNextCapsule(j) ==
    IF j.idx < Len(j.pending_capsules)
    THEN [j EXCEPT !.idx = j.idx + 1, !.pc = "load", !.capsule = NoCapsule,
                   !.result = NoResult]
    ELSE IdleJob

other_commit_status(dbOk) ==
    /\ other_job.pc = "write"
    /\ LET c == other_job.capsule
           new == IF other_job.result.err = Null THEN OnSuccess(c)
                  ELSE OnFailure(c, other_job.result.err)
       IN  IF Changed(c, new) = {}
           THEN /\ other_job' = OtherNextCapsule(other_job)
                /\ UNCHANGED store
           ELSE IF ~dbOk \/ c.id \notin DOMAIN store
           THEN /\ other_job' = IdleJob
                /\ UNCHANGED store
           ELSE /\ store' = Update(store, Changed(c, new), new)
                /\ other_job' = OtherNextCapsule(other_job)
    /\ UNCHANGED << files, clock, creds, nextUid, assigned, jobVars >>

\* the two jobs next to requests that create records without a file
NextTwoProcesses ==
    \/ \E due \in Times, dbOk \in BOOLEAN : POST_capsules(TRUE, due, FALSE, FALSE, dbOk)
    \/ Advance
    \/ start_job
    \/ \E dbOk \in BOOLEAN : query_pending(dbOk)
    \/ load_capsule
    \/ call_send_email
    \/ \E dbOk \in BOOLEAN : commit_status(dbOk)
    \/ other_start_job
    \/ \E dbOk \in BOOLEAN : other_query_pending(dbOk)
    \/ other_load_capsule
    \/ other_call_send_email
    \/ \E dbOk \in BOOLEAN : other_commit_status(dbOk)

SpecTwoProcesses == Init /\ [][NextTwoProcesses]_vars

\* ======================= properties ======================================
\* the steps of the job, as the properties below name them
QueryStep == pc = "query" /\ pc' # "query"

SendStep == pc = "send" /\ pc' = "write"

WriteStep == pc = "write" /\ pc' # "write"

\* the ids the query step has just selected
Selected == {pending_capsules'[k] : k \in 1..Len(pending_capsules')}

\* the stored row, if any, of the record the job's object was loaded from
RowOf(s, c) == {i \in DOMAIN s : i = c.id /\ s[i].uid = c.uid}

\* ----- C1 ----------------------------------------------------------------
\* C1, as stated: the records a tick selects are exactly the stored records
\* that are pending or failed with due_at <= now, and no transport call is made
\* for a record before its due time.
C1_Stated ==
    [][/\ (QueryStep /\ pc' = "send") =>
              \A i \in DOMAIN store :
                  i \in Selected <=> /\ store[i].status \in {"pending", "failed"}
                                     /\ store[i].due <= now_utc
       /\ (SendStep /\ result'.smtp) => capsule.due <= clock]_vars

C5_Stated ==
    [][/\ \A id \in 1..MaxCreates, removed \in BOOLEAN, dbOk \in BOOLEAN :
             LET r == delete_capsule(store, files, id, removed, dbOk)
             IN  /\ r.code = 200 => \A c \in get_capsules(r.store).body : c.id # id
                 /\ id \notin DOMAIN store => r.code = 404 /\ r.store = store
       /\ \A u \in 1..(nextUid - 1) :
             (\A c \in get_capsules(store).body : c.uid # u)
                 => \A c \in get_capsules(store').body : c.uid # u
       /\ \A id \in 1..assigned :
             id \notin DOMAIN store => id \notin DOMAIN store']_vars

\* ----- C6 ----------------------------------------------------------------
\* C6: a tick whose query finds nothing due (every stored record is sent or has
\* due_at > now) returns at once: no transport call, no write, the table and the
\* upload folder as they were.
C6_NoOpTick ==
    [][(QueryStep /\ \A i \in DOMAIN store : store[i].status = "sent" \/ store[i].due > now_utc)
          => /\ pc' = "idle"
             /\ store' = store
             /\ files' = files]_vars

\* a tick is about to query a table that holds a sent record and a record that
\* is not yet due, and nothing else
C6_Witness ==
    /\ pc = "query"
    /\ \E i \in DOMAIN store : store[i].status = "sent"
    /\ \E i \in DOMAIN store : store[i].status = "pending" /\ store[i].due > now_utc
    /\ \A i \in DOMAIN store : store[i].status = "sent" \/ store[i].due > now_utc

\* ----- C7 ----------------------------------------------------------------
\* C7, as stated: for a capsule that refers to an attachment whose content is
\* missing, send_email does not deliver: it raises, and no mail goes out without
\* the attachment.
C7_Stated ==
    [][(SendStep /\ capsule.att /\ capsule.uid \notin files) => result'.err # Null]_vars

\* ----- C8 ----------------------------------------------------------------
\* C8, as stated: every capsule of the due set gets its attempt and its write,
\* and no error in the processing of one capsule keeps the loop from the capsules
\* after it: the job returns only from the write of its last capsule.
C8_Stated ==
    [][(pc \in {"load", "send", "write"} /\ pc' = "idle")
          => pc = "write" /\ idx = Len(pending_capsules)]_vars

\* ----- C9 ----------------------------------------------------------------
\* C9, as stated: every stored record has last_error non-null iff its state is
\* failed.
C9_Stated ==
    \A i \in DOMAIN store : store[i].error # Null <=> store[i].status = "failed"

\* ----- C10 ---------------------------------------------------------------
\* C10, as stated: the write for a capsule whose row a request has deleted is a
\* no-op: the table is unchanged and the loop goes on to its next capsule.
C10_Stated ==
    [][(WriteStep /\ capsule.id \notin DOMAIN store)
          => /\ store' = store
             /\ idx < Len(pending_capsules) => pc' = "load"]_vars

\* ----- C11 ---------------------------------------------------------------
\* C11, as stated: at no time are two ticks executing concurrently, and no
\* record is being processed by a second tick while a first tick, which picked
\* it up, has not yet written its state.
C11_Stated ==
    /\ ~(pc # "idle" /\ other_job.pc # "idle")
    /\ ~(capsule.uid # 0 /\ other_job.capsule.uid = capsule.uid)

\* ----- C12 ---------------------------------------------------------------
\* the job returns, from inside its loop
TickEnds == pc \in {"load", "send", "write"} /\ pc' = "idle"

\* C12, as stated: with no mail credentials every attempt fails with the text
\* that names the missing configuration and opens no SMTP session, and every
\* record the tick selected ends the tick failed with that text (the record
\* whose own state write raised apart).
C12_Stated ==
    [][~creds =>
          /\ SendStep => (~result'.smtp /\ result'.err = ErrCreds)
          /\ TickEnds =>
                \A k \in 1..Len(pending_capsules) :
                    (pending_capsules[k] \in DOMAIN store' /\ ~(k = idx /\ store' = store))
                       => /\ store'[pending_capsules[k]].status = "failed"
                          /\ store'[pending_capsules[k]].error = ErrCreds]_vars

\* ----- C13 ---------------------------------------------------------------
\* C13, as stated: every record a create request stores has due_at strictly
\* after the time of its creation (a request with due_at <= now stores nothing).
C13_Stated ==
    [][\A i \in DOMAIN store' : store'[i].uid = nextUid => store'[i].due > clock]_vars

\* ----- C14 ---------------------------------------------------------------
\* the edges of the record state machine
Edges == {<< "pending", "sent" >>, << "pending", "failed" >>,
          << "failed", "sent" >>, << "failed", "failed" >>}

Written == IF result.err = Null THEN OnSuccess(capsule) ELSE OnFailure(capsule, result.err)

\* the step in which the query or a commit raises and the tick is given up
TickFails ==
    \/ pc = "query" /\ pc' \notin {"query", "send"} /\ FindDue(store, now_utc) # {}
    \/ /\ pc = "write" /\ pc' \notin {"write", "load"}
       /\ Changed(capsule, Written) # {} /\ store' = store

\* C15: a tick in which the query or a commit raises ends only that tick: the
\* job returns, the table is as it was, the trigger can fire the job again, and
\* every record that was due and unsent is selected by a query made from then on.
C15_TickFailure ==
    [][TickFails =>
          /\ pc' = "idle"
          /\ store' = store
          /\ \A i \in FindDue(store, now_utc) : i \in FindDue(store', clock')]_vars

\* a status write is about to run while a later record of the same tick is
\* still waiting: the commit can raise here
C15_Witness ==
    /\ pc = "write"
    /\ Changed(capsule, Written) # {}
    /\ idx < Len(pending_capsules)
    /\ pending_capsules[idx + 1] \in FindDue(store, now_utc)

\* ----- C16 ---------------------------------------------------------------
\* C16: deleting a record that has an attachment tries to remove the file, and
\* whether or not the removal succeeds the record is deleted and the answer is
\* 200; a removal that succeeds leaves no file. Stated of every delete request
\* that can be made in the current state, and of the step that deletes.
C16_BestEffortRelease ==
    [][/\ \A id \in DOMAIN store : \A removed \in BOOLEAN :
             store[id].att =>
                LET r == delete_capsule(store, files, id, removed, TRUE)
                IN  /\ r.code = 200
                    /\ id \notin DOMAIN r.store
                    /\ removed => store[id].uid \notin r.files
       /\ \A id \in DOMAIN store :
             (store[id].att /\ store' = Without(store, id))
                => files' \in {files, files \ {store[id].uid}}]_vars

\* the one record created so far had an attachment and has been deleted, and
\* its file is still in the upload folder: the removal had failed
C16_Witness ==
    /\ nextUid = 2
    /\ assigned = 1
    /\ store = << >>
    /\ files = {1}

\* ----- C17 ---------------------------------------------------------------
\* C17, as stated: a stored record that is failed and due is selected by every
\* tick's query, stays failed while its attempts fail, and has had its
\* transport attempt by the time the tick that selected it ends.
C17_Stated ==
    [][/\ (QueryStep /\ pc' = "send") =>
              \A i \in DOMAIN store :
                  (store[i].status = "failed" /\ store[i].due <= now_utc) => i \in Selected
       /\ (WriteStep /\ result.err # Null) =>
              \A i \in RowOf(store, capsule) :
                  store[i].status = "failed" => store'[i].status = "failed"
       /\ TickEnds =>
              \A k \in 1..Len(pending_capsules) :
                  (k > idx \/ (k = idx /\ pc = "load")) =>
                      ~ /\ pending_capsules[k] \in DOMAIN store
                        /\ store[pending_capsules[k]].status = "failed"
                        /\ store[pending_capsules[k]].due <= now_utc]_vars

\* ----- C18 ---------------------------------------------------------------
\* C18, as stated: a tick reads the clock once and decides dueness against that
\* value only: a record that was not yet due at the tick's now gets from this
\* tick neither a transport call nor a state write.
C18_Stated ==
    [][/\ (pc # "idle" /\ pc' # "idle") => now_utc' = now_utc
       /\ (SendStep /\ result'.smtp) => capsule.due <= now_utc
       /\ WriteStep =>
              \A i \in DOMAIN store :
                  (i \in DOMAIN store' /\ store'[i] # store[i]) => store[i].due <= now_utc]_vars

\* ----- C19 ---------------------------------------------------------------
\* send_email returns without an exception
SendSucceeds == call_send_email /\ result'.err = Null

\* the status write after a successful send commits
WriteSucceeds == commit_status(TRUE) /\ result.err = Null

\* The interval trigger keeps firing the job (line 497) and the job's thread
\* keeps running, the clock goes on, and the database and the mail relay, tried
\* again and again, answer again and again: the query, a send and the commit
\* after a send succeed infinitely often if they are attempted infinitely often.
Fairness ==
    /\ WF_vars(Advance)
    /\ WF_vars(start_job)
    /\ SF_vars(query_pending(TRUE))
    /\ WF_vars(load_capsule)
    /\ WF_vars(call_send_email)
    /\ SF_vars(SendSucceeds)
    /\ WF_vars(\E dbOk \in BOOLEAN : commit_status(dbOk))
    /\ SF_vars(WriteSucceeds)

\* the job next to the requests that are carried out: a create that stores its
\* record, a delete that removes the row
NextLive ==
    \/ Advance
    \/ \E due \in Times, att \in BOOLEAN : POST_capsules(TRUE, due, att, TRUE, TRUE)
    \/ \E capsule_id \in 1..MaxCreates, removed \in BOOLEAN :
          DELETE_capsule(capsule_id, removed, TRUE)
    \/ start_job
    \/ \E dbOk \in BOOLEAN : query_pending(dbOk)
    \/ load_capsule
    \/ call_send_email
    \/ \E dbOk \in BOOLEAN : commit_status(dbOk)

SpecFair == Init /\ [][NextLive]_vars /\ Fairness

\* the record of upload u is stored
Stored(u) == \E i \in DOMAIN store : store[i].uid = u

\* C19: with mail credentials configured, and the relay and the database
\* answering as Fairness says, every stored record is eventually sent, unless
\* it is deleted.
C19_AtLeastOnce ==
    \A u \in 1..MaxCreates :
        (creds /\ Stored(u)) ~>
            (~Stored(u) \/ \E i \in DOMAIN store : store[i].uid = u /\ store[i].status = "sent")

\* a due record whose attempt has failed waits for its retry
C19_Witness ==
    /\ creds
    /\ pc = "idle"
    /\ \E i \in DOMAIN store : store[i].status = "failed" /\ store[i].due <= clock

\* ----- C20 ---------------------------------------------------------------
\* a step of the job
JobStep == pc' # pc

\* C20, as stated: a step of the job creates and deletes no record and changes
\* nothing but state and last_error, and these only of the record it has
\* selected and loaded; a delete leaves every other record as it was.
C20_Stated ==
    [][/\ JobStep =>
              /\ DOMAIN store' = DOMAIN store
              /\ files' = files
              /\ \A i \in DOMAIN store :
                    /\ store'[i].uid = store[i].uid
                    /\ store'[i].due = store[i].due
                    /\ store'[i].att = store[i].att
                    /\ store'[i] # store[i] => (pc = "write" /\ i \in RowOf(store, capsule))
       /\ DOMAIN store' # DOMAIN store =>
              \A i \in DOMAIN store \cap DOMAIN store' : store'[i] = store[i]]_vars

\* ----- C21 ---------------------------------------------------------------
\* C21, as stated: the id given to a newly created record differs from every
\* id given before, those of deleted records included, so the state write of a
\* tick lands on the record the tick loaded and on no other.
C21_Stated ==
    [][/\ \A j \in DOMAIN store' :
             (j \notin DOMAIN store \/ store'[j].uid # store[j].uid) => j > assigned
       /\ WriteStep =>
             \A i \in DOMAIN store : store'[i] # store[i] => store[i].uid = capsule.uid]_vars

\* ----- C22 ---------------------------------------------------------------
\* C22, as stated: no stored record has an attachment reference whose file a
\* delete request has removed: delete removes the record first and the file
\* afterwards.
C22_Stated ==
    \A i \in DOMAIN store : store[i].att => store[i].uid \in files

\* ----- C23 ---------------------------------------------------------------
\* C23, as stated: a record whose transport call succeeded leaves the write step
\* as sent, never pending or failed, also when the commit raises; and a record
\* becomes failed only through the write of its own failed attempt.
C23_Stated ==
    [][WriteStep =>
          /\ (result.smtp /\ result.err = Null) =>
                \A i \in RowOf(store, capsule) :
                    i \in DOMAIN store' /\ store'[i].status = "sent"
          /\ \A i \in DOMAIN store :
                (store[i].status # "failed" /\ store'[i].status = "failed")
                   => (result.err # Null /\ i \in RowOf(store, capsule))]_vars

\* ----- C24 ---------------------------------------------------------------
\* C24, as stated: a transport call is made only for a record that is still
\* stored when the call starts: a record deleted after the query selected it
\* is not mailed.
C24_Stated ==
    [][(SendStep /\ result'.smtp) => RowOf(store, capsule) # {}]_vars

====
